---- MODULE Spec2Model ----
(***************************************************************************)
(* isl_binary_heap.h: a priority queue on an array-backed binary heap.     *)
(* Every node of the array holds an item (an opaque pointer) and the       *)
(* node's own array index.  islbh_enqueue returns the ADDRESS of a node of *)
(* the array (&self->nodes[index]); islbh_update and islbh_remove take     *)
(* such an address.  The comparator is external: items are modelled as     *)
(* identities 1..MaxLen whose ordering key lives in caller memory (key),   *)
(* and cmp(a, b) is the usual three-way integer comparison of the keys.    *)
(***************************************************************************)
EXTENDS Integers, Sequences, FiniteSets

\* Bounds of the model.
MaxLen == 3          \* the caller never holds more than MaxLen items queued
MaxKey == 1          \* keys are 0..MaxKey
MaxPrealloc == 2     \* islbh_create is called with prealloc in 1..MaxPrealloc
DrainLen == 4        \* as MaxLen, for the caller that only enqueues and dequeues
PureLen == 5         \* heaps of up to PureLen nodes, for single calls on any heap
PureKey == 2         \* their keys are 0..PureKey
MaxTurns == 3        \* turns of batchenq's doubling loop that are followed

Largest(a, b) == IF a > b THEN a ELSE b
MemSize == Largest(PureLen, Largest(DrainLen, MaxLen))
Items == 1..MaxLen
DrainItems == 1..DrainLen
Keys == 0..MaxKey
PureKeys == 0..PureKey
Slots == 0..(MemSize - 1)
NoItem == 0          \* NULL, and the content of memory never written

VARIABLES
    length,      \* self->length
    allocated,   \* self->allocated
    nodes,       \* self->nodes: Slots -> [item, index]
    key,         \* caller memory: the ordering key of each item
    hnd,         \* caller memory: a node pointer the caller has kept, and for which item
    op,          \* the last call and what it returned
    phase,       \* "enq" / "deq" while only enqueues-then-dequeues ran on an empty heap
    enqd,        \* items enqueued in the current enqueue-then-dequeue run
    deqd,        \* items dequeued in the current enqueue-then-dequeue run, in order
    loop         \* islbh_batchenq's locals while its doubling loop is followed turn by turn

vars == <<length, allocated, nodes, key, hnd, op, phase, enqd, deqd, loop>>

----------------------------------------------------------------------------
\* islbh_node, and the pointers to nodes a caller can hold.

Node(it, ix) == [item |-> it, index |-> ix]
Uninit == Node(NoItem, 0)

NullH == [kind |-> "null", slot |-> 0]          \* NULL
SlotH(s) == [kind |-> "slot", slot |-> s]       \* self->nodes + s, current array
DanglingH == [kind |-> "dangling", slot |-> 0]  \* into the array as it was before a realloc

\* The comparator: negative when a is ahead of b.
cmp(k, a, b) == k[a] - k[b]

\* self as a record, for the functions below.
Self == [length |-> length, allocated |-> allocated, nodes |-> nodes]

----------------------------------------------------------------------------
\* The static helpers.

\* (variant: the new size is recorded before realloc's result is tested)
islbh__grow_unchecked(self, newalloc, ok) ==
    [self |-> [self EXCEPT !.allocated = newalloc], ret |-> IF ok THEN "OK" ELSE "BAD_ALLOC"]

islbh__grow(self, newalloc, ok) ==
    IF ok
    THEN [self |-> [self EXCEPT !.allocated = newalloc], ret |-> "OK"]
    ELSE [self |-> self, ret |-> "BAD_ALLOC"]

\* (variant: the nodes are exchanged whole, their index fields not rewritten)
islbh__swap_whole(ns, index1, index2) ==
    [ns EXCEPT ![index1] = ns[index2], ![index2] = ns[index1]]

islbh__swap(ns, index1, index2) ==
    [ns EXCEPT ![index1] = Node(ns[index2].item, index1),
               ![index2] = Node(ns[index1].item, index2)]

\* (variant: a node also moves above a parent it ties with)
RECURSIVE islbh__siftup_ties(_, _, _)
islbh__siftup_ties(ns, k, index) ==
    LET parent == (index - 1) \div 2
    IN IF index > 0 /\ cmp(k, ns[index].item, ns[parent].item) <= 0
       THEN islbh__siftup_ties(islbh__swap(ns, index, parent), k, parent)
       ELSE [nodes |-> ns, index |-> index]

RECURSIVE islbh__siftup(_, _, _)
islbh__siftup(ns, k, index) ==
    LET parent == (index - 1) \div 2
    IN IF index > 0 /\ cmp(k, ns[index].item, ns[parent].item) < 0
       THEN islbh__siftup(islbh__swap(ns, index, parent), k, parent)
       ELSE [nodes |-> ns, index |-> index]

Higher(ns, len, k, index) ==
    LET left == 2 * index + 1
        right == left + 1
    IN IF right < len /\ cmp(k, ns[right].item, ns[left].item) < 0
       THEN right ELSE left

\* (variant: the descent to a leaf is not followed by a sift up)
RECURSIVE islbh__siftdown_floyd_descent(_, _, _, _)
islbh__siftdown_floyd_descent(ns, len, k, index) ==
    IF 2 * index + 1 < len
    THEN LET higher == Higher(ns, len, k, index)
         IN islbh__siftdown_floyd_descent(islbh__swap(ns, index, higher), len, k, higher)
    ELSE ns

RECURSIVE islbh__siftdown_floyd(_, _, _, _)
islbh__siftdown_floyd(ns, len, k, index) ==
    IF 2 * index + 1 < len
    THEN LET higher == Higher(ns, len, k, index)
         IN islbh__siftdown_floyd(islbh__swap(ns, index, higher), len, k, higher)
    ELSE islbh__siftup(ns, k, index).nodes

\* (variant: the loop also stops at a child the node ties with)
RECURSIVE islbh__siftdown_tiestop(_, _, _, _)
islbh__siftdown_tiestop(ns, len, k, index) ==
    IF 2 * index + 1 < len
    THEN LET higher == Higher(ns, len, k, index)
         IN IF cmp(k, ns[index].item, ns[higher].item) <= 0
            THEN ns
            ELSE islbh__siftdown_tiestop(islbh__swap(ns, index, higher), len, k, higher)
    ELSE ns

RECURSIVE islbh__siftdown(_, _, _, _)
islbh__siftdown(ns, len, k, index) ==
    IF 2 * index + 1 < len
    THEN LET higher == Higher(ns, len, k, index)
         IN IF cmp(k, ns[index].item, ns[higher].item) < 0
            THEN ns
            ELSE islbh__siftdown(islbh__swap(ns, index, higher), len, k, higher)
    ELSE ns

RECURSIVE FloydLoop(_, _, _, _, _)
FloydLoop(ns, len, k, n, i) ==
    IF i < n
    THEN FloydLoop(islbh__siftdown(ns, len, k, n - i - 1), len, k, n, i + 1)
    ELSE ns

\* (variant: the loop starts one node short of the last parent)
islbh__floyd_algorithm_short(ns, len, k) == FloydLoop(ns, len, k, len \div 2 - 1, 0)

islbh__floyd_algorithm(ns, len, k) == FloydLoop(ns, len, k, len \div 2, 0)

----------------------------------------------------------------------------
\* Reading through a node pointer.  realloc may move the array, so a pointer
\* from before a realloc is dangling: what a read through it yields is not
\* defined (garbage; the value the node now has is one possible outcome).

NodeIndex(self, h, garbage) ==
    IF h.kind = "slot" THEN self.nodes[h.slot].index ELSE garbage

\* self->nodes + index == node
SameNode(h, index, garbage) ==
    IF h.kind = "slot" THEN h.slot = index ELSE garbage

----------------------------------------------------------------------------
\* The public functions: each yields the heap afterwards and the value returned.

islbh_create(prealloc) ==
    [length |-> 0, allocated |-> prealloc, nodes |-> [s \in Slots |-> Uninit]]

\* (variant: the pointer returned is to the node the item was first put in)
islbh_enqueue_first(self, k, item, ok) ==
    LET index == self.length
        g == IF self.allocated <= self.length
             THEN islbh__grow(self, self.allocated * 2, ok)
             ELSE [self |-> self, ret |-> "OK"]
    IN IF g.ret # "OK"
       THEN [self |-> g.self, ret |-> NullH]
       ELSE LET ns == [g.self.nodes EXCEPT ![index] = Node(item, index)]
                up == islbh__siftup(ns, k, index)
            IN [self |-> [g.self EXCEPT !.nodes = up.nodes, !.length = index + 1],
                ret |-> SlotH(index)]

islbh_enqueue(self, k, item, ok) ==
    LET index == self.length
        g == IF self.allocated <= self.length
             THEN islbh__grow(self, self.allocated * 2, ok)
             ELSE [self |-> self, ret |-> "OK"]
    IN IF g.ret # "OK"
       THEN [self |-> g.self, ret |-> NullH]
       ELSE LET ns == [g.self.nodes EXCEPT ![index] = Node(item, index)]
                up == islbh__siftup(ns, k, index)
            IN [self |-> [g.self EXCEPT !.nodes = up.nodes, !.length = index + 1],
                ret |-> SlotH(up.index)]

\* (variant: the last node is copied over node 0, not exchanged with it)
islbh_dequeue_move(self, k) ==
    IF self.length = 0
    THEN [self |-> self, ret |-> NoItem]
    ELSE IF self.length = 1
    THEN [self |-> [self EXCEPT !.length = 0], ret |-> self.nodes[0].item]
    ELSE LET last == self.length - 1
             ns == [self.nodes EXCEPT ![0] = self.nodes[last]]
         IN [self |-> [self EXCEPT !.length = last,
                                   !.nodes = islbh__siftdown_floyd(ns, last, k, 0)],
             ret |-> self.nodes[0].item]

islbh_dequeue(self, k) ==
    IF self.length = 0
    THEN [self |-> self, ret |-> NoItem]
    ELSE IF self.length = 1
    THEN [self |-> [self EXCEPT !.length = 0], ret |-> self.nodes[0].item]
    ELSE LET last == self.length - 1
             ns == islbh__swap(self.nodes, 0, last)
         IN [self |-> [self EXCEPT !.length = last,
                                   !.nodes = islbh__siftdown_floyd(ns, last, k, 0)],
             ret |-> self.nodes[0].item]

islbh_peek(self, garbage) ==
    IF self.nodes[0] = Uninit THEN garbage ELSE self.nodes[0].item

\* (variant: the node is sifted up only)
islbh_update_uponly(self, k, index) ==
    [self EXCEPT !.nodes = islbh__siftup(self.nodes, k, index).nodes]

islbh_update(self, k, index) ==
    LET up == islbh__siftup(self.nodes, k, index)
    IN [self EXCEPT !.nodes = islbh__siftdown(up.nodes, self.length, k, up.index)]

\* (variant: length is decremented before the node is validated)
islbh_remove_early(self, k, h, gindex, gsame) ==
    IF h.kind = "null"
    THEN [self |-> self, ret |-> "NULL_NODE"]
    ELSE LET index == NodeIndex(self, h, gindex)
             last == self.length - 1
         IN IF last < index \/ ~SameNode(h, index, gsame)
            THEN [self |-> [self EXCEPT !.length = IF last < 0 THEN 0 ELSE last],
                  ret |-> "NOT_EXIST"]
            ELSE LET ns == IF index # last
                           THEN islbh__swap(self.nodes, index, last)
                           ELSE self.nodes
                     s1 == [self EXCEPT !.length = last, !.nodes = ns]
                 IN [self |-> islbh_update(s1, k, ns[index].index), ret |-> "OK"]

islbh_remove(self, k, h, gindex, gsame) ==
    IF h.kind = "null"
    THEN [self |-> self, ret |-> "NULL_NODE"]
    ELSE LET index == NodeIndex(self, h, gindex)
         IN IF self.length <= index \/ ~SameNode(h, index, gsame)
            THEN [self |-> self, ret |-> "NOT_EXIST"]
            ELSE LET last == self.length - 1
                     ns == IF index # last
                           THEN islbh__swap(self.nodes, index, last)
                           ELSE self.nodes
                     s1 == [self EXCEPT !.length = last, !.nodes = ns]
                 IN [self |-> islbh_update(s1, k, ns[index].index), ret |-> "OK"]

\* (variant: the loop also doubles when the nodes just fit)
RECURSIVE BatchAlloc_inclusive(_, _)
BatchAlloc_inclusive(alloc, need) ==
    IF alloc <= need THEN BatchAlloc_inclusive(alloc * 2, need) ELSE alloc

RECURSIVE BatchAlloc(_, _)
BatchAlloc(alloc, need) ==
    IF alloc < need THEN BatchAlloc(alloc * 2, need) ELSE alloc

RECURSIVE BatchFill(_, _, _, _)
BatchFill(ns, len, items, i) ==
    IF i < Len(items)
    THEN BatchFill([ns EXCEPT ![len + i] = Node(items[i + 1], len + i)], len, items, i + 1)
    ELSE ns

islbh_batchenq(self, k, items, ok) ==
    LET len == self.length
        count == Len(items)
        alloc == BatchAlloc(self.allocated, len + count)
        g == IF alloc > self.allocated
             THEN islbh__grow(self, alloc, ok)
             ELSE [self |-> self, ret |-> "OK"]
    IN IF g.ret # "OK"
       THEN [self |-> g.self, ret |-> "BAD_ALLOC"]
       ELSE LET ns == BatchFill(g.self.nodes, len, items, 0)
            IN [self |-> [g.self EXCEPT !.length = len + count,
                              !.nodes = islbh__floyd_algorithm(ns, len + count, k)],
                ret |-> "OK"]

----------------------------------------------------------------------------
\* The caller's side of a call.

ActiveItemsOf(self) == {self.nodes[i].item : i \in 0..(self.length - 1)}
ActiveItems == ActiveItemsOf(Self)

\* The caller keeps at most one of the pointers islbh_enqueue has returned:
\* h is the pointer, item the item it was returned for, live whether the
\* caller has neither got that item back from islbh_dequeue nor removed it.
Kept(x, h, live) == [item |-> x, h |-> h, live |-> live]
NoneKept == Kept(NoItem, NullH, FALSE)

\* A successful realloc leaves every node pointer the caller holds dangling.
Rehome(kept, grown) ==
    IF grown /\ kept.h.kind = "slot" THEN [kept EXCEPT !.h = DanglingH] ELSE kept

\* The caller has seen item x leave the queue.
Gone(kept, x) ==
    IF x # NoItem /\ kept.item = x THEN [kept EXCEPT !.live = FALSE] ELSE kept

\* The last call: its name, what it returned (res, and item when it returns an
\* item), and how it was made (via).
Call(name, res, item, via) == [name |-> name, res |-> res, item |-> item, via |-> via]

SetSelf(self) ==
    /\ length' = self.length
    /\ allocated' = self.allocated
    /\ nodes' = self.nodes

\* No islbh_batchenq is inside its doubling loop.
NoLoop == [on |-> FALSE, allocated |-> 0, count |-> 0, turns |-> 0]

track == <<phase, enqd, deqd, loop>>

Init ==
    /\ \E prealloc \in 1..MaxPrealloc :
          /\ length = islbh_create(prealloc).length
          /\ allocated = islbh_create(prealloc).allocated
          /\ nodes = islbh_create(prealloc).nodes
    /\ key = [x \in 1..MemSize |-> 0]
    /\ hnd = NoneKept
    /\ op = Call("create", "OK", NoItem, "")
    /\ phase = "enq"
    /\ enqd = {}
    /\ deqd = <<>>
    /\ loop = NoLoop

\* islbh_enqueue( self, item ), the item's key being kv; keep: the caller
\* keeps the pointer returned.  ok: whether realloc succeeds if called.
DoEnqueue(x, kv, keep, ok) ==
    /\ x \notin ActiveItems
    /\ allocated > length => ok
    /\ LET k == [key EXCEPT ![x] = kv]
           r == islbh_enqueue(Self, k, x, ok)
       IN /\ key' = k
          /\ SetSelf(r.self)
          /\ IF r.ret = NullH
             THEN /\ ~keep
                  /\ op' = Call("enqueue", "NULL", NoItem, IF ok THEN "" ELSE "nomem")
                  /\ UNCHANGED hnd
             ELSE /\ op' = Call("enqueue", "OK", NoItem,
                               IF ~ok THEN "nomem" ELSE IF keep THEN "kept" ELSE "")
                  /\ hnd' = IF keep THEN Kept(x, r.ret, TRUE)
                            ELSE IF hnd.item = x THEN NoneKept
                            ELSE Rehome(hnd, r.self.allocated # allocated)

\* islbh_dequeue( self )
DoDequeue ==
    LET r == islbh_dequeue(Self, key)
    IN /\ SetSelf(r.self)
       /\ op' = Call("dequeue", IF r.ret = NoItem THEN "NULL" ELSE "OK", r.ret, "")
       /\ hnd' = Gone(hnd, r.ret)
       /\ UNCHANGED key

\* islbh_peek( self ); garbage: what a read of memory never written yields
DoPeek(garbage) ==
    /\ nodes[0] # Uninit => garbage = NoItem
    /\ LET r == islbh_peek(Self, garbage)
       IN op' = Call("peek", IF r = NoItem THEN "NULL" ELSE "OK", r, "")
    /\ UNCHANGED <<length, allocated, nodes, key, hnd>>

\* The caller changes the key of queued item x to kv and at once calls
\* islbh_update( self, node ) with a node whose index field reads index.
DoUpdate(x, kv, index, via) ==
    /\ x \in ActiveItems
    /\ LET k == [key EXCEPT ![x] = kv]
       IN /\ key' = k
          /\ SetSelf(islbh_update(Self, k, index))
    /\ op' = Call("update", "OK", NoItem, via)
    /\ UNCHANGED hnd

\* islbh_remove( self, node ); x: the item the caller means to remove;
\* (gindex, gsame): what the reads through a dangling pointer yield.  op
\* records as item the item that was at the index read through the pointer.
DoRemove(x, h, via, gindex, gsame) ==
    /\ h.kind # "dangling" => (gindex = 0 /\ gsame)
    /\ LET r == islbh_remove(Self, key, h, gindex, gsame)
           at == NodeIndex(Self, h, gindex)
       IN /\ SetSelf(r.self)
          /\ op' = Call("remove", r.ret, IF r.ret = "OK" THEN nodes[at].item ELSE NoItem, via)
          /\ hnd' = IF r.ret = "OK" THEN Gone(hnd, x) ELSE hnd
    /\ UNCHANGED key

\* islbh_batchenq( self, items, itemsize, count, nodes ) with the items of S
\* in ascending order, keyed by ks.  The nodes the call copies to the out
\* buffer are copies in caller memory, not pointers into the array: the
\* caller gets no node pointer for a batched item.
RECURSIVE SeqOf(_)
SeqOf(S) ==
    IF S = {} THEN <<>>
    ELSE LET m == CHOOSE a \in S : \A b \in S : a <= b
         IN <<m>> \o SeqOf(S \ {m})

DoBatchEnq(S, ks, ok) ==
    /\ length + Cardinality(S) <= MaxLen
    /\ S \cap ActiveItems = {}
    /\ allocated >= length + Cardinality(S) => ok
    /\ LET k == [x \in DOMAIN key |-> IF x \in S THEN ks[x] ELSE key[x]]
           r == islbh_batchenq(Self, k, SeqOf(S), ok)
       IN /\ key' = k
          /\ SetSelf(r.self)
          /\ op' = Call("batchenq", r.ret, NoItem, IF ok THEN "" ELSE "nomem")
          /\ IF r.ret = "OK"
             THEN hnd' = IF hnd.item \in S THEN NoneKept
                         ELSE Rehome(hnd, r.self.allocated # allocated)
             ELSE UNCHANGED hnd

----------------------------------------------------------------------------
\* Any caller.

Enqueue == \E x \in Items, kv \in Keys, keep \in BOOLEAN, ok \in BOOLEAN :
              length < MaxLen /\ DoEnqueue(x, kv, keep, ok) /\ UNCHANGED track

Dequeue == DoDequeue /\ UNCHANGED track

Peek == \E garbage \in Items \cup {NoItem} : DoPeek(garbage) /\ UNCHANGED track

\* update with the pointer kept for hnd.item since it was enqueued
UpdateKept ==
    \E kv \in Keys :
        /\ hnd.live
        /\ hnd.h.kind = "slot"
        /\ DoUpdate(hnd.item, kv, NodeIndex(Self, hnd.h, 0), "kept")
        /\ UNCHANGED track

\* update with the address of the node that holds x now, looked up in self->nodes
UpdateResolved ==
    \E x \in Items, kv \in Keys, s \in Slots :
        /\ s < length
        /\ nodes[s].item = x
        /\ DoUpdate(x, kv, NodeIndex(Self, SlotH(s), 0), "resolved")
        /\ UNCHANGED track

\* remove with the pointer kept (NULL when none is)
RemoveKept ==
    \E gindex \in Slots, gsame \in BOOLEAN :
        DoRemove(hnd.item, hnd.h, "kept", gindex, gsame) /\ UNCHANGED track

\* remove with the address of a node of the current array
RemoveResolved ==
    \E s \in Slots :
        /\ nodes[s] # Uninit
        /\ DoRemove(nodes[s].item, SlotH(s), "resolved", 0, TRUE)
        /\ UNCHANGED track

BatchEnq == \E S \in SUBSET Items, ok \in BOOLEAN :
               \E ks \in [S -> Keys] : DoBatchEnq(S, ks, ok) /\ UNCHANGED track

Next ==
    \/ Enqueue
    \/ Dequeue
    \/ Peek
    \/ UpdateKept
    \/ UpdateResolved
    \/ RemoveKept
    \/ RemoveResolved
    \/ BatchEnq

Spec == Init /\ [][Next]_vars

----------------------------------------------------------------------------
\* The caller that only enqueues, and then dequeues until the queue is empty
\* (and may then start again).  phase, enqd and deqd record the run.

DrainEnqueue ==
    \E x \in DrainItems, kv \in Keys, ok \in BOOLEAN :
        /\ length < DrainLen
        /\ phase = "enq" \/ length = 0
        /\ DoEnqueue(x, kv, FALSE, ok)
        /\ IF op'.res = "NULL"
           THEN UNCHANGED track
           ELSE /\ phase' = "enq"
                /\ enqd' = IF length = 0 THEN {x} ELSE enqd \cup {x}
                /\ deqd' = <<>>
                /\ UNCHANGED loop

DrainDequeue ==
    /\ length > 0
    /\ DoDequeue
    /\ phase' = "deq"
    /\ enqd' = enqd
    /\ deqd' = Append(deqd, op'.item)
    /\ UNCHANGED loop

NextDrain ==
    \/ DrainEnqueue
    \/ DrainDequeue

SpecDrain == Init /\ [][NextDrain]_vars

----------------------------------------------------------------------------
\* Properties.

Parent(i) == (i - 1) \div 2

\* C1: heap order holds after any sequence of public operations, the caller
\* calling update on the item's handle right after every key change: no
\* active node compares strictly less than its parent.
C1_HeapOrder ==
    \A i \in 1..(length - 1) : cmp(key, nodes[i].item, nodes[Parent(i)].item) >= 0

\* C2: every active node records its own array offset.
C2_PositionIsIndex ==
    \A i \in 0..(length - 1) : nodes[i].index = i

\* C2 witness: a dequeue that swapped and sifted left at least two nodes.
C2_Witness ==
    /\ op.name = "dequeue"
    /\ op.res = "OK"
    /\ length >= 2

\* C3: enqueues into an empty heap followed by dequeues: the items dequeued
\* so far are in non-decreasing key order, none of them is still queued,
\* they and the items still queued are exactly the items enqueued, and no
\* item still queued compares strictly less than the last one dequeued.
C3_OrderLaw ==
    phase = "deq" =>
        /\ \A i \in 1..(Len(deqd) - 1) : cmp(key, deqd[i], deqd[i + 1]) <= 0
        /\ \A i, j \in 1..Len(deqd) : i # j => deqd[i] # deqd[j]
        /\ {deqd[i] : i \in 1..Len(deqd)} \cup ActiveItems = enqd
        /\ Len(deqd) + length = Cardinality(enqd)
        /\ \A x \in ActiveItems : cmp(key, deqd[Len(deqd)], x) <= 0

\* C3 witness: DrainLen items of different keys were enqueued and all drained.
C3_Witness ==
    /\ phase = "deq"
    /\ length = 0
    /\ Len(deqd) = DrainLen
    /\ cmp(key, deqd[1], deqd[DrainLen]) < 0

----------------------------------------------------------------------------
\* The items queued, with multiplicity.
BagOf(ns, len) ==
    [x \in 1..MemSize |-> Cardinality({i \in 0..(len - 1) : ns[i].item = x})]

BagLess(b, x) == [b EXCEPT ![x] = b[x] - 1]

HeapUnchanged ==
    /\ length' = length
    /\ allocated' = allocated
    /\ nodes' = nodes

\* The pointer kept is to the active node that holds the item it was
\* returned for.
KeptNamesItem ==
    /\ hnd.live
    /\ hnd.h.kind = "slot"
    /\ hnd.h.slot < length
    /\ nodes[hnd.h.slot].item = hnd.item

\* C4: a pointer returned by enqueue for an item keeps naming that item over
\* every enqueue, dequeue, update and remove that neither reallocates the
\* array nor takes the item out.
C4_HandleNamesItem ==
    [][(/\ KeptNamesItem
        /\ op'.name \in {"enqueue", "dequeue", "update", "remove"}
        /\ allocated' = allocated
        /\ hnd' = hnd) => KeptNamesItem']_vars

\* C5: a remove that returns Ok takes exactly one item off the queue, the
\* item that was at the position read through the handle.
C5_RemoveTakesNamed ==
    [][(op'.name = "remove" /\ op'.res = "OK") =>
          /\ length' = length - 1
          /\ BagOf(nodes', length') = BagLess(BagOf(nodes, length), op'.item)]_vars

\* C6: a remove that returns NullHandle or NotFound changes nothing.
C6_RejectedRemoveMutatesNothing ==
    [][(op'.name = "remove" /\ op'.res # "OK") =>
          /\ HeapUnchanged
          /\ key' = key
          /\ op'.res \in {"NULL_NODE", "NOT_EXIST"}]_vars

\* C6 witness: a remove was rejected as NotFound on a non-empty heap through
\* a pointer to a node of the current array.
C6_Witness ==
    /\ op.name = "remove"
    /\ op.res = "NOT_EXIST"
    /\ op.via = "kept"
    /\ hnd.h.kind = "slot"
    /\ length > 0

\* C7: once the item a pointer was returned for has left the heap, remove
\* with that pointer returns NotFound and removes nothing.
C7_StaleHandleRejected ==
    [][(/\ op'.name = "remove"
        /\ op'.via = "kept"
        /\ hnd.h.kind = "slot"
        /\ hnd.item # NoItem
        /\ ~hnd.live
        /\ hnd.item \notin ActiveItems) =>
          /\ op'.res = "NOT_EXIST"
          /\ HeapUnchanged]_vars

\* C8: when realloc fails in enqueue or batchEnqueue the call reports the
\* error and the heap is as it was before the call.
C8_AllocFailureLeavesHeap ==
    [][(op'.name \in {"enqueue", "batchenq"} /\ op'.via = "nomem") =>
          /\ op'.res = (IF op'.name = "enqueue" THEN "NULL" ELSE "BAD_ALLOC")
          /\ HeapUnchanged]_vars

\* C8 witness: an enqueue or a batchEnqueue on a non-empty heap has failed
\* for want of memory.
C8_Witness ==
    /\ op.name \in {"enqueue", "batchenq"}
    /\ op.via = "nomem"
    /\ op.res # "OK"
    /\ length > 0

\* C9: peek on a heap of length 0 reports Empty, on a non-empty heap it
\* returns the item of node 0.
C9_PeekEmpty ==
    op.name = "peek" =>
        IF length = 0 THEN op.res = "NULL" ELSE op.item = nodes[0].item

\* C10: a successful enqueue adds exactly its item, and the pointer it
\* returns is to the active node that holds the item, whose index field is
\* the node's offset.
C10_EnqueueAddsAndNames ==
    [][(op'.name = "enqueue" /\ op'.res = "OK") =>
          /\ length' = length + 1
          /\ \E x \in 1..MemSize :
                /\ BagOf(nodes, length)[x] = 0
                /\ BagLess(BagOf(nodes', length'), x) = BagOf(nodes, length)
                /\ op'.via = "kept" =>
                      /\ hnd'.item = x
                      /\ hnd'.h.kind = "slot"
                      /\ hnd'.h.slot < length'
                      /\ nodes'[hnd'.h.slot] = Node(x, hnd'.h.slot)]_vars

\* C10 witness: the pointer returned is to a node nearer the root than the
\* one the item was first put in.
C10_Witness ==
    /\ op.name = "enqueue"
    /\ op.res = "OK"
    /\ op.via = "kept"
    /\ hnd.h.kind = "slot"
    /\ hnd.h.slot < length - 1
    /\ nodes[hnd.h.slot].item = hnd.item

----------------------------------------------------------------------------
\* A caller of a heap created with any prealloc, 0 included, that enqueues,
\* dequeues and batch-enqueues.  islbh_batchenq is followed through its
\* doubling loop turn by turn.  With allocated = 0 a realloc that succeeds
\* leaves no room, and the store to nodes[index] is outside the block: whether
\* the node is then in memory is not defined, the call goes on to length++.
\* The caller is not followed past such a store.

InitZero ==
    /\ \E prealloc \in 0..MaxPrealloc :
          /\ length = islbh_create(prealloc).length
          /\ allocated = islbh_create(prealloc).allocated
          /\ nodes = islbh_create(prealloc).nodes
    /\ key = [x \in 1..MemSize |-> 0]
    /\ hnd = NoneKept
    /\ op = Call("create", "OK", NoItem, "")
    /\ phase = "enq"
    /\ enqd = {}
    /\ deqd = <<>>
    /\ loop = NoLoop

\* A store outside the allocated block has happened.
Overrun == length > allocated

Idle == ~loop.on /\ ~Overrun

ZeroEnqueue ==
    \E x \in Items, kv \in Keys, ok \in BOOLEAN :
        /\ Idle
        /\ x \notin ActiveItems
        /\ allocated > length => ok
        /\ LET k == [key EXCEPT ![x] = kv]
               r == islbh_enqueue(Self, k, x, ok)
           IN /\ key' = k
              /\ length' = r.self.length
              /\ allocated' = r.self.allocated
              /\ nodes' \in IF r.self.length > r.self.allocated
                            THEN {r.self.nodes, nodes}
                            ELSE {r.self.nodes}
              /\ op' = Call("enqueue", IF r.ret = NullH THEN "NULL" ELSE "OK", NoItem,
                            IF ok THEN "" ELSE "nomem")
        /\ UNCHANGED <<hnd, track>>

ZeroDequeue ==
    /\ Idle
    /\ length > 0
    /\ DoDequeue
    /\ UNCHANGED track

\* islbh_batchenq( self, items, itemsize, count, NULL ) up to its while loop
ZeroBatchCall ==
    \E count \in 0..MaxLen :
        /\ Idle
        /\ length + count <= MaxLen
        /\ loop' = [on |-> TRUE, allocated |-> allocated, count |-> count, turns |-> 0]
        /\ op' = Call("batchenq", "", NoItem, "loop")
        /\ UNCHANGED <<length, allocated, nodes, key, hnd, phase, enqd, deqd>>

\* one turn of  while ( allocated < length + count ) allocated *= 2;
ZeroBatchTurn ==
    /\ loop.on
    /\ loop.allocated < length + loop.count
    /\ loop.turns < MaxTurns
    /\ loop' = [loop EXCEPT !.allocated = @ * 2, !.turns = @ + 1]
    /\ UNCHANGED <<length, allocated, nodes, key, hnd, op, phase, enqd, deqd>>

\* the loop left: the rest of islbh_batchenq, with the items not yet in the heap
ZeroBatchRest ==
    \E ok \in BOOLEAN :
        /\ loop.on
        /\ ~(loop.allocated < length + loop.count)
        /\ loop.allocated > allocated \/ ok
        /\ LET S == CHOOSE T \in SUBSET (Items \ ActiveItems) : Cardinality(T) = loop.count
               r == islbh_batchenq(Self, key, SeqOf(S), ok)
           IN /\ SetSelf(r.self)
              /\ op' = Call("batchenq", r.ret, NoItem, IF ok THEN "" ELSE "nomem")
        /\ loop' = NoLoop
        /\ UNCHANGED <<key, hnd, phase, enqd, deqd>>

NextZero ==
    \/ ZeroEnqueue
    \/ ZeroDequeue
    \/ ZeroBatchCall
    \/ ZeroBatchTurn
    \/ ZeroBatchRest

SpecZero == InitZero /\ [][NextZero]_vars

----------------------------------------------------------------------------
\* One call on any heap: the heap is any array of up to PureLen nodes that
\* record their offsets, with any keys; each call below is made once, on the
\* heaps that meet what the call assumes.

InitPure ==
    /\ \E n \in 0..PureLen :
          /\ length = n
          /\ nodes = [s \in Slots |-> IF s < n THEN Node(s + 1, s) ELSE Uninit]
    /\ allocated = PureLen
    /\ key \in [1..MemSize -> PureKeys]
    /\ \A x \in 1..MemSize : x > PureLen => key[x] = 0
    /\ hnd = NoneKept
    /\ op = Call("create", "OK", NoItem, "pure")
    /\ phase = "enq"
    /\ enqd = {}
    /\ deqd = <<>>
    /\ loop = NoLoop

Fresh == op.name = "create"

\* Heap order between every parent and child other than the pairs with node 0.
OrderBelowRoot ==
    \A i \in 1..(length - 1) :
        Parent(i) # 0 => cmp(key, nodes[i].item, nodes[Parent(i)].item) >= 0

\* The key of the item of node s becomes kv, then islbh_update( self, self->nodes + s )
PureUpdate ==
    \E s \in Slots, kv \in PureKeys :
        /\ Fresh
        /\ s < length
        /\ C1_HeapOrder
        /\ LET k == [key EXCEPT ![nodes[s].item] = kv]
           IN /\ key' = k
              /\ SetSelf(islbh_update(Self, k, NodeIndex(Self, SlotH(s), 0)))
        /\ op' = Call("update", "OK", nodes[s].item, "pure")
        /\ UNCHANGED <<hnd, track>>

\* islbh_batchenq( self, items, count, NULL ) with the items not yet in the heap
PureBatch ==
    \E count \in 0..PureLen :
        /\ Fresh
        /\ length + count <= PureLen
        /\ C1_HeapOrder
        /\ LET r == islbh_batchenq(Self, key, [i \in 1..count |-> length + i], TRUE)
           IN /\ SetSelf(r.self)
              /\ op' = Call("batchenq", r.ret, NoItem, "pure")
        /\ UNCHANGED <<key, hnd, track>>

\* islbh__siftdown_floyd( self, 0 ), on an array that is in heap order below
\* node 0 (as islbh_dequeue calls it)
PureSiftdownFloyd ==
    /\ Fresh
    /\ length >= 1
    /\ OrderBelowRoot
    /\ nodes' = islbh__siftdown_floyd(nodes, length, key, 0)
    /\ op' = Call("siftdown_floyd", "OK", NoItem, "pure")
    /\ UNCHANGED <<length, allocated, key, hnd, track>>

NextPure ==
    \/ PureUpdate
    \/ PureBatch
    \/ PureSiftdownFloyd

SpecPure == InitPure /\ [][NextPure]_vars

\* The offset of the node that holds item x.
SlotOf(ns, len, x) == CHOOSE i \in 0..(len - 1) : ns[i].item = x

RECURSIVE Depth(_)
Depth(i) == IF i = 0 THEN 0 ELSE 1 + Depth(Parent(i))

\* C11: update after the key of one item of a heap has changed leaves heap
\* order and the recorded offsets intact, the length and the items as they
\* were, the item no deeper when its key decreased and no nearer the root
\* when its key increased.
C11_UpdateCorrect ==
    [][(op'.name = "update" /\ op'.via = "pure") =>
          LET x == op'.item
              was == Depth(SlotOf(nodes, length, x))
              now == Depth(SlotOf(nodes', length', x))
          IN /\ C1_HeapOrder'
             /\ C2_PositionIsIndex'
             /\ length' = length
             /\ BagOf(nodes', length') = BagOf(nodes, length)
             /\ key'[x] < key[x] => now <= was
             /\ key'[x] > key[x] => now >= was]_vars

\* C11 witness: an item whose key decreased has moved up two levels.
C11_Witness ==
    /\ op.name = "update"
    /\ op.via = "pure"
    /\ op.item > 3
    /\ nodes[0].item = op.item

\* The keys that dequeueing until the heap is empty returns, in order.
RECURSIVE DrainKeys(_, _)
DrainKeys(self, k) ==
    IF self.length = 0 THEN <<>>
    ELSE LET r == islbh_dequeue(self, k)
         IN <<k[r.ret]>> \o DrainKeys(r.self, k)

\* The heap after islbh_enqueue of items[i], items[i+1], ... one by one.
RECURSIVE EnqueueAll(_, _, _, _)
EnqueueAll(self, k, items, i) ==
    IF i > Len(items) THEN self
    ELSE EnqueueAll(islbh_enqueue(self, k, items[i], TRUE).self, k, items, i + 1)

\* C12: batchenq of some items leaves heap order over all the nodes, those
\* held before and those appended, and dequeueing it empty returns the same
\* sequence of keys as after enqueueing the same items one by one.
C12_BatchEquivalence ==
    [][(op'.name = "batchenq" /\ op'.via = "pure") =>
          LET items == [i \in 1..(length' - length) |-> length + i]
          IN /\ C1_HeapOrder'
             /\ DrainKeys(Self', key) = DrainKeys(EnqueueAll(Self, key, items, 1), key)]_vars

\* C12 witness: a batch ended with at least four nodes and the last item
\* appended at the root.
C12_Witness ==
    /\ op.name = "batchenq"
    /\ op.via = "pure"
    /\ length >= 4
    /\ nodes[0].item = length

\* C17: on an array of at least one node in heap order below node 0,
\* islbh__siftdown_floyd from node 0 leaves exactly the nodes (items and
\* offsets) that islbh__siftdown from node 0 leaves, ties included.
C17_SiftdownFloydIsSiftdown ==
    [][op'.name = "siftdown_floyd" =>
          nodes' = islbh__siftdown(nodes, length, key, 0)]_vars

\* C17 witness: the item of node 0 has gone down two levels and rests below
\* a parent of equal key.
C17_Witness ==
    /\ op.name = "siftdown_floyd"
    /\ \E i \in 3..(length - 1) :
          /\ nodes[i].item = 1
          /\ key[nodes[Parent(i)].item] = key[1]

\* C18: islbh__siftdown does not swap a node with a child it ties with, so
\* update of an item whose key has not changed leaves every node as it was.
C18_UnchangedKeyNoMove ==
    [][(op'.name = "update" /\ op'.via = "pure" /\ key' = key) =>
          nodes' = nodes]_vars

\* Whether the new key of the item at node s breaks heap order at that node.
BrokenAt(ns, len, k, s) ==
    \/ s > 0 /\ cmp(k, ns[s].item, ns[Parent(s)].item) < 0
    \/ \E c \in {2 * s + 1, 2 * s + 2} :
          c < len /\ cmp(k, ns[c].item, ns[s].item) < 0

\* C19: in update after a key change on a heap, islbh__siftup and
\* islbh__siftdown never both swap, and one of them swaps whenever the new
\* key broke heap order at the item's node.
C19_OnePhaseMoves ==
    [][(op'.name = "update" /\ op'.via = "pure") =>
          LET s == SlotOf(nodes, length, op'.item)
              up == islbh__siftup(nodes, key', s)
              down == islbh__siftdown(up.nodes, length, key', up.index)
              upMoved == up.index # s
              downMoved == down # up.nodes
          IN /\ nodes' = down
             /\ ~(upMoved /\ downMoved)
             /\ BrokenAt(nodes, length, key', s) => (upMoved \/ downMoved)]_vars

\* C19 witness: the item of node 0 got a greater key and went down two levels.
C19_Witness ==
    /\ op.name = "update"
    /\ op.via = "pure"
    /\ op.item = 1
    /\ \E i \in 3..(length - 1) : nodes[i].item = 1

\* C13: an enqueue made with length = allocated whose growth succeeds leaves
\* allocated greater than the length before the call (the capacity asked for
\* is at least 1, never 0).
C13_GrowthLeavesRoom ==
    [][(op'.name = "enqueue" /\ op'.res = "OK" /\ length = allocated) =>
          allocated' > length]_vars

\* C14: in every state reachable from create with any prealloc >= 0,
\* allocation succeeding or failing, length <= allocated.
C14_LengthWithinAllocated == length <= allocated

\* C16: islbh_batchenq's doubling loop ends: it never takes more turns than
\* the number of nodes it is to make room for.
C16_DoublingLoopEnds == loop.on => loop.turns <= length + loop.count

RECURSIVE Pow2(_)
Pow2(j) == IF j = 0 THEN 1 ELSE 2 * Pow2(j - 1)

\* C15: allocated never decreases.  It changes only in an enqueue made with
\* length = allocated, to exactly twice its value, or in a batchenq whose
\* nodes do not fit, to its value times the smallest power of two that makes
\* them fit; dequeue, peek, update and remove leave it as it is.
C15_GrowthMonotone ==
    [][/\ allocated' >= allocated
       /\ op'.name \in {"dequeue", "peek", "update", "remove"} => allocated' = allocated
       /\ allocated' # allocated =>
             \/ /\ op'.name = "enqueue"
                /\ length = allocated
                /\ allocated' = 2 * allocated
             \/ /\ op'.name = "batchenq"
                /\ length' > allocated
                /\ \E j \in 1..MemSize :
                      /\ allocated' = allocated * Pow2(j)
                      /\ allocated' >= length'
                      /\ \A i \in 0..(j - 1) : allocated * Pow2(i) < length']_vars

\* C15 witness: a batchenq has ended with three nodes in an array of four,
\* which two doublings from one make.
C15_Witness ==
    /\ op.name = "batchenq"
    /\ op.res = "OK"
    /\ length = 3
    /\ allocated = 4

\* C20: every node ever written still records its own offset, active or not;
\* so a node past the active ones records an offset that is not below length,
\* and remove through a pointer to it returns NOT_EXIST.
C20_VacatedKeepOffset ==
    \A s \in Slots :
        nodes[s].item # NoItem =>
            /\ nodes[s].index = s
            /\ s >= length =>
                  /\ nodes[s].index >= length
                  /\ islbh_remove(Self, key, SlotH(s), 0, TRUE).ret = "NOT_EXIST"

\* C20 witness: a dequeue or a remove has just vacated the node after the
\* last active one, which records its own offset.
C20_Witness ==
    /\ op.name \in {"dequeue", "remove"}
    /\ op.res = "OK"
    /\ length >= 1
    /\ nodes[length].item # NoItem
    /\ nodes[length].index = length

====
